---- MODULE Spec2Model ----
(***************************************************************************)
(* Model of python/mcp_server.py: the MCPServer broker.  One handler       *)
(* thread per accepted connection (_handle_client / _process_message),     *)
(* one consumer thread (_process_command_queue / _execute_command), three  *)
(* non-reentrant threading.Lock objects, the clients dictionary, the       *)
(* command queue, the response cache and the mt5_connection reference.     *)
(***************************************************************************)
EXTENDS Integers, Sequences, FiniteSets, TLC

\* ---------------------------------------------------------------- bounds
NumConns == 1      \* connections accepted during one run of Spec
MaxMsgs == 2       \* messages the peers send during one run of Spec
FairConns == 2     \* connections accepted during one run of FairSpec
FairMsgs == 3      \* messages the peers send during one run of FairSpec
NumReqIds == 1     \* distinct requestId values clients and upstream use
SweepKeys == 3     \* request ids the cache may hold during one run of SweepSpec
NumStamps == 3     \* distinct arrival times of the entries in SweepSpec
MaxTicks == 2      \* seconds the clock advances during one run of SweepSpec
MaxSweeps == 2     \* calls of _clean_expired_cache during one run of SweepSpec
ClientMsgs == 2    \* messages the other peers send during one run of ClientSpec
MaxCalls == 2      \* send_command calls during one run of ClientSpec
HandshakeConns == 1  \* connections accepted during one run of HandshakeSpec
HandshakeMsgs == 2   \* messages the peers send during one run of HandshakeSpec
IdleConns == 1       \* connections accepted during one run of IdleSpec
IdleMsgs == 1        \* messages the peers send during one run of IdleSpec
MaxIdleTicks == 3    \* clock steps of Quantum seconds during one run of IdleSpec
StopConns == 1       \* connections accepted during one run of StopSpec
StopMsgs == 2        \* messages the peers send during one run of StopSpec

\* the identifiers that accepted connections get
Conns == 1..FairConns
ReqIds == 1..NumReqIds

\* ------------------------------------------------------------- constants
NoConn == 0                  \* mt5_connection = None
NoReq == 0                   \* key absent from the JSON object
Free == -1                   \* lock not held
Consumer == 0                \* thread id of the command processor thread
NoTok == "none"              \* 'auth' key absent
Tokens == {"toka", "bogus"}  \* strings a peer may present
Horizon == 600               \* line 543: 10 minutes expiration
max_clients == 1             \* self.max_clients, as the server is configured
ClientConn == 1              \* the connection whose peer is the MCPClient
ReadTimeout == 60            \* line 196: client_socket.settimeout(60)
IdleLimit == 120             \* line 230: last_activity older than 120 s
Quantum == ReadTimeout       \* the clock of IdleSpec advances one read timeout at a time

\* A decoded inbound JSON object (bad = text that json.loads rejects,
\* garbled = bytes that data.decode('utf-8') rejects).
Msg(bad, identity, auth, command, requestId, responseToId) ==
    [bad |-> bad, identity |-> identity, auth |-> auth, command |-> command,
     requestId |-> requestId, responseToId |-> responseToId,
     garbled |-> FALSE]

NoMsg == Msg(FALSE, FALSE, NoTok, FALSE, NoReq, NoReq)
BadMsg == Msg(TRUE, FALSE, NoTok, FALSE, NoReq, NoReq)
GarbledMsg == [NoMsg EXCEPT !.garbled = TRUE]
IdentityMsg == Msg(FALSE, TRUE, NoTok, FALSE, NoReq, NoReq)
AuthMsg(t) == Msg(FALSE, FALSE, t, FALSE, NoReq, NoReq)
\* a command with its requestId (the command name and the parameters are
\* carried along unexamined by the server and are left out)
CmdMsg(r) == Msg(FALSE, FALSE, NoTok, TRUE, r, NoReq)
\* a reply as the EA sends it: carries 'command' and 'responseToId'
RespMsg(r) == Msg(FALSE, FALSE, NoTok, TRUE, r, r)

\* a command that also carries a token, as MCPClient.send_command builds it
\* when it has one (mcp_client.py lines 182-191)
AuthCmdMsg(t, r) == Msg(FALSE, FALSE, t, TRUE, r, NoReq)

Msgs == {BadMsg, GarbledMsg, IdentityMsg}
        \cup {AuthMsg(t) : t \in Tokens}
        \cup {CmdMsg(r) : r \in ReqIds}
        \cup {RespMsg(r) : r \in ReqIds}

\* the messages of peers that put a token into what they send: MCPClient
\* sends its token alone (authenticate) and with every command
HandshakeKinds == {IdentityMsg}
                  \cup {AuthMsg(t) : t \in Tokens}
                  \cup {AuthCmdMsg(t, r) : t \in Tokens, r \in ReqIds}

\* A JSON object the server writes to a client socket.
Reply(status, message, rid, data) ==
    [status |-> status, message |-> message, rid |-> rid, data |-> data]

ConnectedReply == Reply("connected", "", NoReq, NoMsg)
AuthenticatedReply == Reply("authenticated", "Authentication successful", NoReq, NoMsg)
AuthFailedReply == Reply("error", "Authentication failed", NoReq, NoMsg)
NotAuthenticatedReply == Reply("error", "Not authenticated", NoReq, NoMsg)
InvalidJsonReply == Reply("error", "Invalid JSON format", NoReq, NoMsg)
QueuedReply(r) == Reply("queued", "queued for processing", r, NoMsg)
NotConnectedReply(r) == Reply("error", "MetaTrader EA not connected", r, NoMsg)
TimeoutReply(r) == Reply("error", "Timeout waiting for response from MetaTrader", r, NoMsg)
ExecErrorReply(r) == Reply("error", "Error executing command", r, NoMsg)
\* json.dumps(response_data): the cached object itself
PayloadReply(d) == Reply("payload", "", d.requestId, d)
NoReply == Reply("", "", NoReq, NoMsg)
\* what MCPClient.send_command makes up itself (mcp_client.py lines 230, 237)
ResponseTimeout == Reply("error", "Response timeout", NoReq, NoMsg)
EmptyResponse == Reply("error", "Empty response", NoReq, NoMsg)

\* an empty dictionary
EmptyMap == [x \in {} |-> x]

\* A command_item.  seq, authed and linked are history fields: the position of
\* the item in enq_log, and whether its connection was authenticated and
\* whether an upstream was linked when it was appended.
Item(c, r, n, a, l) ==
    [client_id |-> c, request_id |-> r, seq |-> n, authed |-> a, linked |-> l]

NoItem == Item(NoConn, NoReq, 0, FALSE, FALSE)

VARIABLES
    auth_enabled,      \* self.auth_enabled
    clients,           \* self.clients: client_id -> [type, authenticated]
    mt5_connection,    \* self.mt5_connection (the socket of a connection)
    command_queue,     \* self.command_queue
    response_cache,    \* self.response_cache: request id -> data
    clients_lock,      \* owner of self.clients_lock, or Free
    queue_lock,        \* owner of self.queue_lock, or Free
    cache_lock,        \* owner of self.cache_lock, or Free
    hpc,               \* position of each connection's handler thread
    hcur,              \* the message a handler is processing (data)
    hmsg,              \* the message a handler is about to _send_to_client
    cpc,               \* position of the consumer thread
    citem,             \* command_item of the consumer
    cmsg,              \* the message the consumer is about to _send_to_client
    inbox,             \* bytes a peer has sent and the handler has not read
    peer_closed,       \* the peer closed its end of the connection
    sock_closed,       \* sockets the server has closed
    outbox,            \* what has been written to each connection's socket
    nsent,             \* messages sent by peers so far
    inflight,          \* history: commands popped whose _execute_command runs
    enq_log,           \* history: every command appended to the queue
    nolink_pops,       \* history: commands popped while mt5_connection was None
    pop_log,           \* history: every command the consumer popped, in order
    upwrites,          \* history: every envelope written to an upstream socket
    config_file,       \* mcp_config.ini as _load_auth_tokens finds and leaves it
    auth_tokens,       \* self.auth_tokens: token -> permissions
    constructed,       \* MCPServer.__init__ has run
    now,               \* time.time(), in seconds
    nsweeps,           \* history: calls of _clean_expired_cache so far
    evicted,           \* history: keys _clean_expired_cache has deleted
    cl_pc,             \* MCPClient: position of the thread in send_command
    callbacks,         \* MCPClient.callbacks: request ids with the sync callback
    last_response,     \* MCPClient.last_response
    response_event,    \* MCPClient.response_event is set
    cl_read,           \* replies the client's receive thread has taken so far
    cl_calls,          \* send_command calls started (the i-th uses request id i)
    cl_results,        \* history: what each finished send_command returned
    cl_token,          \* MCPClient.auth_token (NoTok: constructed without one)
    cl_authenticated,  \* MCPClient.authenticated
    cl_auth,           \* history: what authenticate() returned and had seen
    cl_refused,        \* history: send_command refused, "Not authenticated"
    last_activity,     \* self.clients[c]['last_activity']
    last_wake,         \* when the handler's latest recv returned or timed out
    running,           \* self.running
    spc,               \* position of the thread that calls stop()
    caught_in_recv     \* handlers that were inside recv when running was cleared

vars == <<auth_enabled, clients, mt5_connection, command_queue, response_cache,
          clients_lock, queue_lock, cache_lock, hpc, hcur, hmsg, cpc, citem,
          cmsg, inbox, peer_closed, sock_closed, outbox, nsent, inflight,
          enq_log, nolink_pops, pop_log, upwrites, config_file, auth_tokens,
          constructed, now, nsweeps, evicted, cl_pc, callbacks, last_response,
          response_event, cl_read, cl_calls, cl_results, cl_token,
          cl_authenticated, cl_auth, cl_refused, last_activity, last_wake,
          running, spc, caught_in_recv>>

\* the inactivity bookkeeping of the handlers
idle == <<last_activity, last_wake>>

\* the shutdown flag and the thread that calls stop()
halt == <<running, spc, caught_in_recv>>

\* what the constructor sets up and no server thread changes afterwards
boot == <<config_file, auth_tokens, constructed>>

\* the clock and the sweep count: the waits of the server threads (recv
\* timeout, the 30 s deadline) are choices of the model, not clock readings
clock == <<now, nsweeps, evicted>>

\* the state of the MCPClient attached to connection ClientConn
client == <<cl_pc, callbacks, last_response, response_event, cl_read,
            cl_calls, cl_results, cl_token, cl_authenticated, cl_auth,
            cl_refused>>

\* ------------------------------------------------- _load_auth_tokens
\* mcp_config.ini: exists (line 78), parses (config.read does not raise,
\* line 80), section ('AUTH_TOKENS' in config, line 81), entries (the options
\* of that section as written in the file)
Config(exists, parses, section, entries) ==
    [exists |-> exists, parses |-> parses, section |-> section,
     entries |-> entries]

MissingConfig == Config(FALSE, FALSE, FALSE, EmptyMap)
BrokenConfig == Config(TRUE, FALSE, FALSE, EmptyMap)
NoSectionConfig == Config(TRUE, TRUE, FALSE, EmptyMap)

\* option names and values a configuration file may hold
FileTokens == {"toka", "TokB", "tokc"}
PermStrings == {"all", "read", "read,trade"}

Configs ==
    {MissingConfig, BrokenConfig, NoSectionConfig}
    \cup {Config(TRUE, TRUE, TRUE, e) :
             e \in UNION {[D -> PermStrings] : D \in SUBSET FileTokens}}

\* the configuration the server of Spec was constructed from
StdConfig == Config(TRUE, TRUE, TRUE, [t \in {"toka"} |-> "all"])

\* line 92: str(uuid.uuid4())
DefaultToken == "uuid4"

\* configparser hands out option names through optionxform: lower case
Lower(t) == IF t = "TokB" THEN "tokb" ELSE t

\* line 84: permissions.split(',')
SplitComma(p) == IF p = "read,trade" THEN <<"read", "trade">> ELSE <<p>>

\* line 78: os.path.exists(config_file) is false
NoTokensConfigured(cfg) == ~cfg.exists

\* lines 74-108: the table _load_auth_tokens returns (created_at left out)
LoadAuthTokens(cfg) ==
    IF NoTokensConfigured(cfg)
    THEN [t \in {DefaultToken} |-> <<"all">>]
    ELSE IF cfg.exists /\ cfg.parses /\ cfg.section
    THEN [k \in {Lower(t) : t \in DOMAIN cfg.entries} |->
             SplitComma(cfg.entries[CHOOSE t \in DOMAIN cfg.entries :
                                       Lower(t) = k])]
    ELSE EmptyMap

\* lines 98-106: the file after _load_auth_tokens, when the write succeeded
SavedConfig(cfg) ==
    IF NoTokensConfigured(cfg)
    THEN Config(TRUE, TRUE, TRUE, [t \in {DefaultToken} |-> "all"])
    ELSE cfg

\* every thread at its start, every collection empty, no traffic yet
Idle ==
    /\ clients = EmptyMap
    /\ mt5_connection = NoConn
    /\ command_queue = <<>>
    /\ clients_lock = Free
    /\ queue_lock = Free
    /\ cache_lock = Free
    /\ hpc = [c \in Conns |-> "off"]
    /\ hcur = [c \in Conns |-> NoMsg]
    /\ hmsg = [c \in Conns |-> NoReply]
    /\ cpc = "idle"
    /\ citem = NoItem
    /\ cmsg = NoReply
    /\ inbox = [c \in Conns |-> <<>>]
    /\ peer_closed = [c \in Conns |-> FALSE]
    /\ sock_closed = {}
    /\ outbox = [c \in Conns |-> <<>>]
    /\ nsent = 0
    /\ inflight = {}
    /\ enq_log = <<>>
    /\ nolink_pops = {}
    /\ pop_log = <<>>
    /\ upwrites = <<>>
    /\ last_activity = [c \in Conns |-> 0]
    /\ last_wake = [c \in Conns |-> 0]
    /\ running = TRUE
    /\ spc = "off"
    /\ caught_in_recv = {}

\* authenticate() has not returned; otherwise what it returned (ok) and
\* whether the receive thread had taken the server's 'authenticated' reply
\* before it returned (seen)
NotCalled == [done |-> FALSE, ok |-> FALSE, seen |-> FALSE]

\* no MCPClient is attached: the peers are arbitrary programs
NoClient ==
    /\ cl_pc = "off"
    /\ callbacks = {}
    /\ last_response = NoReply
    /\ response_event = FALSE
    /\ cl_read = 0
    /\ cl_calls = 0
    /\ cl_results = <<>>
    /\ cl_token = NoTok
    /\ cl_authenticated = FALSE
    /\ cl_auth = NotCalled
    /\ cl_refused = FALSE

\* a server constructed from StdConfig, started, nothing accepted yet
Init ==
    /\ auth_enabled \in BOOLEAN
    /\ Idle
    /\ response_cache = EmptyMap
    /\ config_file = StdConfig
    /\ auth_tokens = LoadAuthTokens(StdConfig)
    /\ constructed = TRUE
    /\ now = 0
    /\ nsweeps = 0
    /\ evicted = {}
    /\ NoClient

\* ------------------------------------------------------------ dictionaries
Put(d, k, v) == [x \in (DOMAIN d) \cup {k} |-> IF x = k THEN v ELSE d[x]]
Del(d, k) == [x \in (DOMAIN d) \ {k} |-> d[x]]

\* socket.sendall on the socket of connection c can raise: the server closed
\* the socket, or the peer closed its end (then the write may still succeed).
SendOutcomes(c) ==
    IF c \in sock_closed THEN {FALSE}
    ELSE IF peer_closed[c] THEN {TRUE, FALSE}
    ELSE {TRUE}

\* ------------------------------------------------------------ environment
\* start(): accept() returns a connection, a handler thread is started
\* (at most n connections during the run)
Accept(c, n) ==
    /\ running
    /\ c <= n
    /\ hpc[c] = "off"
    /\ \A d \in Conns : d < c => hpc[d] # "off"
    /\ hpc' = [hpc EXCEPT ![c] = "reg"]
    /\ UNCHANGED <<idle, halt, boot, clock, client, auth_enabled, clients, mt5_connection, command_queue,
                   response_cache, clients_lock, queue_lock, cache_lock, hcur,
                   hmsg, cpc, citem, cmsg, inbox, peer_closed, sock_closed,
                   outbox, nsent, inflight, enq_log, upwrites,
                   nolink_pops,
                   pop_log>>

\* the peer of connection c writes one JSON text to its socket
\* (at most n messages during the run)
PeerSend(c, m, n) ==
    /\ hpc[c] \notin {"off", "done"}
    /\ ~peer_closed[c]
    /\ nsent < n
    /\ inbox' = [inbox EXCEPT ![c] = Append(@, m)]
    /\ nsent' = nsent + 1
    /\ UNCHANGED <<idle, halt, boot, clock, client, auth_enabled, clients, mt5_connection, command_queue,
                   response_cache, clients_lock, queue_lock, cache_lock, hpc,
                   hcur, hmsg, cpc, citem, cmsg, peer_closed, sock_closed,
                   outbox, inflight, enq_log, upwrites,
                   nolink_pops,
                   pop_log>>

\* the peer of connection c closes its end
PeerClose(c) ==
    /\ hpc[c] \notin {"off", "done"}
    /\ ~peer_closed[c]
    /\ peer_closed' = [peer_closed EXCEPT ![c] = TRUE]
    /\ UNCHANGED <<idle, halt, boot, clock, client, auth_enabled, clients, mt5_connection, command_queue,
                   response_cache, clients_lock, queue_lock, cache_lock, hpc,
                   hcur, hmsg, cpc, citem, cmsg, inbox, sock_closed, outbox,
                   nsent, inflight, enq_log, upwrites,
                   nolink_pops,
                   pop_log>>

\* ------------------------------------------------- _handle_client (thread c)
\* lines 199-207: with clients_lock: self.clients[client_id] = {...}
HRegister(c) ==
    /\ hpc[c] = "reg"
    /\ clients_lock = Free
    /\ clients' = Put(clients, c, [type |-> "unknown",
                                   authenticated |-> ~auth_enabled])
    /\ last_activity' = [last_activity EXCEPT ![c] = now]
    /\ last_wake' = [last_wake EXCEPT ![c] = now]
    /\ hpc' = [hpc EXCEPT ![c] = "recv"]
    /\ UNCHANGED <<halt, boot, clock, client, auth_enabled, mt5_connection, command_queue, response_cache,
                   clients_lock, queue_lock, cache_lock, hcur, hmsg, cpc,
                   citem, cmsg, inbox, peer_closed, sock_closed, outbox, nsent,
                   inflight, enq_log, upwrites,
                   nolink_pops,
                   pop_log>>

\* where the handler goes after data.decode (line 224; a UnicodeDecodeError
\* is caught at line 235 and ends the loop), json.loads and the tests of
\* lines 268, 284
AfterDecode(m) ==
    IF m.garbled THEN "fin"
    ELSE IF m.bad THEN "send"
    ELSE IF m.identity THEN "identity"
    ELSE IF m.auth # NoTok THEN "auth_check"
    ELSE "auth_required"

\* lines 209-225, 235-247 and 263-268: the loop ends when self.running is
\* false at its head or recv raises on a socket that stop() has closed;
\* otherwise recv returns data (then, with clients_lock, last_activity is
\* updated and the message is decoded), or b'' after the peer closed: the
\* loop breaks and the finally block closes the socket, as it does when the
\* bytes are not UTF-8.  A handler that passed the loop head before running
\* was cleared is still in recv and may get data; one that comes to the loop
\* head afterwards leaves the loop.
HRecv(c) ==
    /\ hpc[c] = "recv"
    /\ caught_in_recv' = caught_in_recv \ {c}
    /\ \/ /\ c \in sock_closed \/ (~running /\ c \notin caught_in_recv)
          /\ sock_closed' = sock_closed \cup {c}
          /\ hpc' = [hpc EXCEPT ![c] = "fin"]
          /\ UNCHANGED <<hcur, inbox, hmsg, idle>>
       \/ /\ c \notin sock_closed
          /\ running \/ c \in caught_in_recv
          /\ IF inbox[c] # <<>>
             THEN /\ clients_lock = Free
                  /\ hcur' = [hcur EXCEPT ![c] = Head(inbox[c])]
                  /\ inbox' = [inbox EXCEPT ![c] = Tail(@)]
                  /\ hpc' = [hpc EXCEPT ![c] = AfterDecode(Head(inbox[c]))]
                  /\ hmsg' = [hmsg EXCEPT ![c] =
                                 IF AfterDecode(Head(inbox[c])) = "send"
                                 THEN InvalidJsonReply ELSE @]
                  /\ sock_closed' = IF Head(inbox[c]).garbled
                                    THEN sock_closed \cup {c} ELSE sock_closed
                  /\ last_activity' = IF c \in DOMAIN clients
                                      THEN [last_activity EXCEPT ![c] = now]
                                      ELSE last_activity
                  /\ last_wake' = [last_wake EXCEPT ![c] = now]
             ELSE /\ peer_closed[c]
                  /\ sock_closed' = sock_closed \cup {c}
                  /\ hpc' = [hpc EXCEPT ![c] = "fin"]
                  /\ UNCHANGED <<hcur, inbox, hmsg, idle>>
    /\ UNCHANGED <<running, spc, boot, clock, client, auth_enabled, clients, mt5_connection, command_queue,
                   response_cache, clients_lock, queue_lock, cache_lock, cpc,
                   citem, cmsg, peer_closed, outbox, nsent, inflight, enq_log,
                   upwrites,
                   nolink_pops,
                   pop_log>>

\* an inactivity test that also drops at exactly IdleLimit seconds
IdleExpiredInclusive(t, ts) == t - ts >= IdleLimit

\* line 230: time.time() - self.clients[client_id]['last_activity'] > 120
IdleExpired(t, ts) == t - ts > IdleLimit

\* lines 226-232: recv raises socket.timeout, ReadTimeout seconds or more
\* after it was called, with no data and no close from the peer; with
\* clients_lock the age of last_activity is tested: the loop breaks (and the
\* finally block closes the socket) or goes on to the next recv
HTimeout(c) ==
    /\ hpc[c] = "recv"
    /\ inbox[c] = <<>>
    /\ ~peer_closed[c]
    /\ c \notin sock_closed
    /\ now - last_wake[c] >= ReadTimeout
    /\ clients_lock = Free
    /\ last_wake' = [last_wake EXCEPT ![c] = now]
    /\ caught_in_recv' = caught_in_recv \ {c}
    /\ IF c \in DOMAIN clients /\ IdleExpired(now, last_activity[c])
       THEN /\ hpc' = [hpc EXCEPT ![c] = "fin"]
            /\ sock_closed' = sock_closed \cup {c}
       ELSE UNCHANGED <<hpc, sock_closed>>
    /\ UNCHANGED <<last_activity, running, spc, boot, clock, client, auth_enabled,
                   clients, mt5_connection, command_queue, response_cache,
                   clients_lock, queue_lock, cache_lock, hcur, hmsg, cpc,
                   citem, cmsg, inbox, peer_closed, outbox, nsent, inflight,
                   enq_log, upwrites, nolink_pops, pop_log>>

\* the entry replaced by a fresh one of type mt5_ea
MarkUpstreamFresh(cl, c) ==
    [cl EXCEPT ![c] = [type |-> "mt5_ea", authenticated |-> FALSE]]

\* line 271: self.clients[client_id]['type'] = 'mt5_ea'
MarkUpstream(cl, c) == [cl EXCEPT ![c].type = "mt5_ea"]

\* lines 268-281: with clients_lock: set the type, install mt5_connection and
\* call _send_to_client WITHOUT leaving the with block: the lock stays held
HIdentity(c) ==
    /\ hpc[c] = "identity"
    /\ clients_lock = Free
    /\ IF c \in DOMAIN clients
       THEN /\ clients_lock' = c
            /\ clients' = MarkUpstream(clients, c)
            /\ mt5_connection' = c
            /\ hmsg' = [hmsg EXCEPT ![c] = ConnectedReply]
            /\ hpc' = [hpc EXCEPT ![c] = "send"]
       ELSE /\ hpc' = [hpc EXCEPT ![c] =
                          IF hcur[c].auth # NoTok THEN "auth_check"
                          ELSE "auth_required"]
            /\ UNCHANGED <<clients_lock, clients, mt5_connection, hmsg>>
    /\ UNCHANGED <<idle, halt, boot, clock, client, auth_enabled, command_queue, response_cache, queue_lock,
                   cache_lock, hcur, cpc, citem, cmsg, inbox, peer_closed,
                   sock_closed, outbox, nsent, inflight, enq_log, upwrites,
                   nolink_pops,
                   pop_log>>

\* lines 479-495
IsClientAuthenticated(c) ==
    IF ~auth_enabled THEN TRUE
    ELSE IF c \in DOMAIN clients THEN clients[c].authenticated
    ELSE FALSE

\* line 284: 'auth' in data and not self._is_client_authenticated(client_id)
HAuthCheck(c) ==
    /\ hpc[c] = "auth_check"
    /\ auth_enabled => clients_lock = Free
    /\ hpc' = [hpc EXCEPT ![c] = IF IsClientAuthenticated(c)
                                 THEN "auth_required" ELSE "authenticate"]
    /\ UNCHANGED <<idle, halt, boot, clock, client, auth_enabled, clients, mt5_connection, command_queue,
                   response_cache, clients_lock, queue_lock, cache_lock, hcur,
                   hmsg, cpc, citem, cmsg, inbox, peer_closed, sock_closed,
                   outbox, nsent, inflight, enq_log, upwrites,
                   nolink_pops,
                   pop_log>>

\* a store that accepts every token
TokenValidAny(t) == t # NoTok

\* line 511: token in self.auth_tokens
TokenValid(t) == t \in DOMAIN auth_tokens

\* lines 497-517 and 285-300
HAuthenticate(c) ==
    /\ hpc[c] = "authenticate"
    /\ LET ok == ~auth_enabled
                 \/ (TokenValid(hcur[c].auth) /\ c \in DOMAIN clients)
       IN /\ (auth_enabled /\ TokenValid(hcur[c].auth)) => clients_lock = Free
          /\ clients' = IF auth_enabled /\ ok
                        THEN [clients EXCEPT ![c].authenticated = TRUE]
                        ELSE clients
          /\ hmsg' = [hmsg EXCEPT ![c] = IF ok THEN AuthenticatedReply
                                         ELSE AuthFailedReply]
    /\ hpc' = [hpc EXCEPT ![c] = "send"]
    /\ UNCHANGED <<idle, halt, boot, clock, client, auth_enabled, mt5_connection, command_queue, response_cache,
                   clients_lock, queue_lock, cache_lock, hcur, cpc, citem,
                   cmsg, inbox, peer_closed, sock_closed, outbox, nsent,
                   inflight, enq_log, upwrites,
                   nolink_pops,
                   pop_log>>

\* the check of line 303 looking only at whether the connection is known
MayProcessCommandIfKnown(c) == c \in DOMAIN clients

\* line 303: may the message go on to command processing
MayProcessCommand(c) == IsClientAuthenticated(c)

\* lines 302-312
HAuthRequired(c) ==
    /\ hpc[c] = "auth_required"
    /\ auth_enabled => clients_lock = Free
    /\ IF ~MayProcessCommand(c)
       THEN /\ hmsg' = [hmsg EXCEPT ![c] = NotAuthenticatedReply]
            /\ hpc' = [hpc EXCEPT ![c] = "send"]
            /\ UNCHANGED hcur
       ELSE /\ hpc' = [hpc EXCEPT ![c] = IF hcur[c].command THEN "get_type"
                                         ELSE "recv"]
            /\ hcur' = [hcur EXCEPT ![c] = IF hcur[c].command THEN @
                                           ELSE NoMsg]
            /\ UNCHANGED hmsg
    /\ UNCHANGED <<idle, halt, boot, clock, client, auth_enabled, clients, mt5_connection, command_queue,
                   response_cache, clients_lock, queue_lock, cache_lock,
                   cpc, citem, cmsg, inbox, peer_closed, sock_closed, outbox,
                   nsent, inflight, enq_log, upwrites,
                   nolink_pops,
                   pop_log>>

\* lines 519-532
GetClientType(c) ==
    IF c \in DOMAIN clients THEN clients[c].type ELSE "unknown"

\* lines 317-322: client_type = self._get_client_type(client_id)
HGetType(c) ==
    /\ hpc[c] = "get_type"
    /\ clients_lock = Free
    /\ hpc' = [hpc EXCEPT ![c] =
                  IF GetClientType(c) = "mt5_ea"
                  THEN (IF hcur[c].responseToId # NoReq THEN "cache_put"
                        ELSE "recv")
                  ELSE "enqueue"]
    /\ hcur' = [hcur EXCEPT ![c] =
                  IF GetClientType(c) = "mt5_ea" /\ hcur[c].responseToId = NoReq
                  THEN NoMsg ELSE @]
    /\ UNCHANGED <<idle, halt, boot, clock, client, auth_enabled, clients, mt5_connection, command_queue,
                   response_cache, clients_lock, queue_lock, cache_lock,
                   hmsg, cpc, citem, cmsg, inbox, peer_closed, sock_closed,
                   outbox, nsent, inflight, enq_log, upwrites,
                   nolink_pops,
                   pop_log>>

\* lines 331-348 (enqueue) and 322-329 (store a reply of the EA)
HCommand(c) ==
    /\ hpc[c] \in {"enqueue", "cache_put"}
    /\ IF hpc[c] = "enqueue"
       THEN /\ queue_lock = Free
            /\ LET item == Item(c, hcur[c].requestId, Len(enq_log) + 1,
                                 IsClientAuthenticated(c),
                                 mt5_connection # NoConn)
               IN /\ command_queue' = Append(command_queue, item)
                  /\ enq_log' = Append(enq_log, item)
            /\ hmsg' = [hmsg EXCEPT ![c] = QueuedReply(hcur[c].requestId)]
            /\ hpc' = [hpc EXCEPT ![c] = "send"]
            /\ UNCHANGED <<response_cache, hcur>>
       ELSE /\ cache_lock = Free
            /\ response_cache' = Put(response_cache, hcur[c].responseToId,
                                     [data |-> hcur[c], timestamp |-> now])
            /\ hpc' = [hpc EXCEPT ![c] = "recv"]
            /\ hcur' = [hcur EXCEPT ![c] = NoMsg]
            /\ UNCHANGED <<command_queue, enq_log, hmsg>>
    /\ UNCHANGED <<idle, halt, boot, clock, client, auth_enabled, clients, mt5_connection, clients_lock,
                   queue_lock, cache_lock, cpc, citem, cmsg, inbox,
                   peer_closed, sock_closed, outbox, nsent, inflight, upwrites,
                   nolink_pops,
                   pop_log>>

\* the replies of the authentication handshake (lines 287-298)
HandshakeReplies == {AuthenticatedReply, AuthFailedReply}

\* the handshake going on to the check of line 303 with the same message
AfterHandshakeFallThrough(m) == IF m.command THEN "auth_required" ELSE "recv"

\* line 300: return, whatever else the message carries
AfterHandshake(m) == "recv"

\* lines 455-477: _send_to_client, as called from _process_message, which
\* then returns
HSend(c) ==
    /\ hpc[c] = "send"
    /\ clients_lock = Free
    /\ \E ok \in SendOutcomes(c) :
          outbox' = IF c \in DOMAIN clients /\ ok
                    THEN [outbox EXCEPT ![c] = Append(@, hmsg[c])]
                    ELSE outbox
    /\ hpc' = [hpc EXCEPT ![c] = IF hmsg[c] \in HandshakeReplies
                                 THEN AfterHandshake(hcur[c]) ELSE "recv"]
    /\ hcur' = [hcur EXCEPT ![c] = IF hpc'[c] = "recv" THEN NoMsg ELSE @]
    /\ hmsg' = [hmsg EXCEPT ![c] = NoReply]
    /\ UNCHANGED <<idle, halt, boot, clock, client, auth_enabled, clients, mt5_connection, command_queue,
                   response_cache, clients_lock, queue_lock, cache_lock,
                   cpc, citem, cmsg, inbox, peer_closed, sock_closed,
                   nsent, inflight, enq_log, upwrites,
                   nolink_pops,
                   pop_log>>

\* a handler whose finally block leaves the entry of its connection in place
HUnregisterKeep(c) ==
    /\ hpc[c] = "fin"
    /\ clients_lock = Free
    /\ clients' = clients
    /\ hpc' = [hpc EXCEPT ![c] = "done"]
    /\ UNCHANGED <<idle, halt, boot, clock, client, auth_enabled, mt5_connection, command_queue, response_cache,
                   clients_lock, queue_lock, cache_lock, hcur, hmsg, cpc,
                   citem, cmsg, inbox, peer_closed, sock_closed, outbox, nsent,
                   inflight, enq_log, upwrites,
                   nolink_pops,
                   pop_log>>

\* lines 249-251: with clients_lock: del self.clients[client_id]
HUnregister(c) ==
    /\ hpc[c] = "fin"
    /\ clients_lock = Free
    /\ clients' = Del(clients, c)
    /\ hpc' = [hpc EXCEPT ![c] = "done"]
    /\ UNCHANGED <<idle, halt, boot, clock, client, auth_enabled, mt5_connection, command_queue, response_cache,
                   clients_lock, queue_lock, cache_lock, hcur, hmsg, cpc,
                   citem, cmsg, inbox, peer_closed, sock_closed, outbox, nsent,
                   inflight, enq_log, upwrites,
                   nolink_pops,
                   pop_log>>

HandlerStep(c) ==
    \/ HRegister(c)
    \/ HRecv(c)
    \/ HIdentity(c)
    \/ HAuthCheck(c)
    \/ HAuthenticate(c)
    \/ HAuthRequired(c)
    \/ HGetType(c)
    \/ HCommand(c)
    \/ HSend(c)
    \/ HUnregister(c)

\* ------------------------------------ _process_command_queue (one thread)
\* a consumer that takes the next command before _execute_command returned
CanPopWhileBusy == cpc \in {"idle", "wait", "send"}

\* lines 364-374: the loop takes the next command only after
\* _execute_command has returned
CanPop == cpc = "idle"

\* the test of line 398 inverted
LinkAbsentInverted == mt5_connection # NoConn

\* lines 397-406: if not self.mt5_connection
LinkAbsent == mt5_connection = NoConn

\* the queue is read and left as it is
QueueAfterPeek(q) == q

\* line 371: command_queue.pop(0) removes the head
QueueAfterPop(q) == Tail(q)

\* lines 369-374 and 390-406: pop the head under queue_lock, then test the link
CPop ==
    /\ running
    /\ CanPop
    /\ queue_lock = Free
    /\ command_queue # <<>>
    /\ LET item == Head(command_queue)
       IN /\ command_queue' = QueueAfterPop(command_queue)
          /\ citem' = item
          /\ pop_log' = Append(pop_log, item)
          /\ inflight' = inflight \cup {item}
          /\ nolink_pops' = IF mt5_connection = NoConn
                            THEN nolink_pops \cup {item} ELSE nolink_pops
          /\ IF LinkAbsent
             THEN /\ cmsg' = NotConnectedReply(item.request_id)
                  /\ cpc' = "send"
             ELSE /\ cmsg' = NoReply
                  /\ cpc' = "forward"
    /\ UNCHANGED <<idle, halt, boot, clock, client, auth_enabled, clients, mt5_connection, response_cache,
                   clients_lock, queue_lock, cache_lock, hpc, hcur, hmsg,
                   inbox, peer_closed, sock_closed, outbox, nsent, enq_log,
                   upwrites>>

\* lines 408-418 and 447-453: self.mt5_connection.sendall(...); an exception
\* (the reference is None again, or the socket is broken) goes to the handler
\* of line 447
CForward ==
    /\ cpc = "forward"
    /\ \E ok \in (IF mt5_connection = NoConn THEN {FALSE}
                  ELSE SendOutcomes(mt5_connection)) :
          IF ok
          THEN /\ upwrites' = Append(upwrites,
                                     [to |-> mt5_connection, item |-> citem])
               /\ cpc' = "wait"
               /\ UNCHANGED cmsg
          ELSE /\ cmsg' = ExecErrorReply(citem.request_id)
               /\ cpc' = "send"
               /\ UNCHANGED upwrites
    /\ UNCHANGED <<idle, halt, boot, clock, client, auth_enabled, clients, mt5_connection, command_queue,
                   response_cache, clients_lock, queue_lock, cache_lock, hpc,
                   hcur, hmsg, citem, inbox, peer_closed, sock_closed, outbox,
                   nsent, inflight, enq_log,
                   nolink_pops,
                   pop_log>>

\* lines 420-445: poll the cache under cache_lock until the entry is there
\* (it is removed, and _send_to_client is called with cache_lock still held)
\* or 30 s have passed
CWait ==
    /\ cpc = "wait"
    /\ \/ /\ cache_lock = Free
          /\ citem.request_id \in DOMAIN response_cache
          /\ cache_lock' = Consumer
          /\ cmsg' = PayloadReply(response_cache[citem.request_id].data)
          /\ response_cache' = Del(response_cache, citem.request_id)
       \/ /\ cmsg' = TimeoutReply(citem.request_id)
          /\ UNCHANGED <<cache_lock, response_cache>>
    /\ cpc' = "send"
    /\ UNCHANGED <<idle, halt, boot, clock, client, auth_enabled, clients, mt5_connection, command_queue,
                   clients_lock, queue_lock, hpc, hcur, hmsg, citem, inbox,
                   peer_closed, sock_closed, outbox, nsent, inflight, enq_log,
                   upwrites,
                   nolink_pops,
                   pop_log>>

\* lines 455-477: _send_to_client as called from _execute_command, which then
\* returns (leaving the with cache_lock block of line 426, if it was in it)
CSend ==
    /\ cpc = "send"
    /\ clients_lock = Free
    /\ \E ok \in SendOutcomes(citem.client_id) :
          outbox' = IF citem.client_id \in DOMAIN clients /\ ok
                    THEN [outbox EXCEPT ![citem.client_id] = Append(@, cmsg)]
                    ELSE outbox
    /\ cache_lock' = IF cache_lock = Consumer THEN Free ELSE cache_lock
    /\ inflight' = inflight \ {citem}
    /\ cpc' = "idle"
    /\ citem' = NoItem
    /\ cmsg' = NoReply
    /\ UNCHANGED <<idle, halt, boot, clock, client, auth_enabled, clients, mt5_connection, command_queue,
                   response_cache, clients_lock, queue_lock, hpc, hcur, hmsg,
                   inbox, peer_closed, sock_closed, nsent,
                   enq_log, upwrites,
                   nolink_pops,
                   pop_log>>

ConsumerStep == CPop \/ CForward \/ CWait \/ CSend

\* ------------------------------------------- MCPClient (mcp_client.py)
\* The client is constructed with or without an auth token; connect()
\* starts the receive thread and, with a token, calls authenticate().  It
\* then calls send_command without a callback.  It does not call
\* disconnect().

\* the replies the receive thread has taken from the socket so far
TakenReplies == {outbox[ClientConn][i] : i \in 1..cl_read}

\* authenticate(), lines 129-138: the auth message is written and
\* response_event is cleared (no callback is registered before the first
\* send_command, so the event is not set in between)
ClAuthSend ==
    /\ cl_pc = "auth"
    /\ hpc[ClientConn] # "off"
    /\ inbox' = [inbox EXCEPT ![ClientConn] = Append(@, AuthMsg(cl_token))]
    /\ response_event' = FALSE
    /\ cl_pc' = "auth_wait"
    /\ UNCHANGED <<idle, halt, boot, clock, callbacks, last_response, cl_read, cl_calls,
                   cl_results, cl_token, cl_authenticated, cl_auth,
                   cl_refused, auth_enabled, clients, mt5_connection,
                   command_queue, response_cache, clients_lock, queue_lock,
                   cache_lock, hpc, hcur, hmsg, cpc, citem, cmsg, peer_closed,
                   sock_closed, outbox, nsent, inflight, enq_log, upwrites,
                   nolink_pops,
                   pop_log>>

\* authenticate(), lines 139-155: response_event.wait(10) returns True
\* only if the event is set, and then last_response decides; a None
\* last_response raises in line 150 and line 155 returns False
ClAuthWait ==
    /\ cl_pc = "auth_wait"
    /\ LET ok == /\ response_event
                 /\ last_response # NoReply
                 /\ last_response.status = "authenticated"
       IN /\ cl_authenticated' = (cl_authenticated \/ ok)
          /\ cl_auth' = [done |-> TRUE, ok |-> ok,
                         seen |-> AuthenticatedReply \in TakenReplies]
    /\ cl_pc' = "ready"
    /\ UNCHANGED <<idle, halt, boot, clock, callbacks, last_response, response_event,
                   cl_read, cl_calls, cl_results, cl_token, cl_refused,
                   auth_enabled, clients, mt5_connection, command_queue,
                   response_cache, clients_lock, queue_lock, cache_lock, hpc,
                   hcur, hmsg, cpc, citem, cmsg, inbox, peer_closed,
                   sock_closed, outbox, nsent, inflight, enq_log, upwrites,
                   nolink_pops,
                   pop_log>>

\* lines 171-211: with a token and not authenticated the call returns the
\* error of line 177 and sends nothing; otherwise the request id is fresh
\* (uuid4) and response_event is cleared
ClClear ==
    /\ cl_pc = "ready"
    /\ hpc[ClientConn] # "off"
    /\ IF cl_token # NoTok /\ ~cl_authenticated
       THEN /\ cl_refused' = TRUE
            /\ UNCHANGED <<cl_calls, response_event, cl_pc>>
       ELSE /\ cl_calls < MaxCalls
            /\ cl_calls' = cl_calls + 1
            /\ response_event' = FALSE
            /\ cl_pc' = "reset"
            /\ UNCHANGED cl_refused
    /\ UNCHANGED <<idle, halt, boot, clock, callbacks, last_response, cl_read, cl_results,
                   cl_token, cl_authenticated, cl_auth,
                   auth_enabled, clients, mt5_connection, command_queue,
                   response_cache, clients_lock, queue_lock, cache_lock, hpc,
                   hcur, hmsg, cpc, citem, cmsg, inbox, peer_closed,
                   sock_closed, outbox, nsent, inflight, enq_log, upwrites,
                   nolink_pops,
                   pop_log>>

\* lines 211-215: self.last_response = None; register the sync callback
ClReset ==
    /\ cl_pc = "reset"
    /\ last_response' = NoReply
    /\ callbacks' = callbacks \cup {cl_calls}
    /\ cl_pc' = "send"
    /\ UNCHANGED <<cl_token, cl_authenticated, cl_auth, cl_refused>>
    /\ UNCHANGED <<idle, halt, boot, clock, response_event, cl_read, cl_calls, cl_results,
                   auth_enabled, clients, mt5_connection, command_queue,
                   response_cache, clients_lock, queue_lock, cache_lock, hpc,
                   hcur, hmsg, cpc, citem, cmsg, inbox, peer_closed,
                   sock_closed, outbox, nsent, inflight, enq_log, upwrites,
                   nolink_pops,
                   pop_log>>

\* lines 182-191 and 218: the message carries the token if the client has
\* one; self.socket.sendall(json.dumps(message).encode('utf-8'))
ClSend ==
    /\ cl_pc = "send"
    /\ inbox' = [inbox EXCEPT ![ClientConn] =
                    Append(@, IF cl_token = NoTok THEN CmdMsg(cl_calls)
                              ELSE AuthCmdMsg(cl_token, cl_calls))]
    /\ cl_pc' = "wait"
    /\ UNCHANGED <<cl_token, cl_authenticated, cl_auth, cl_refused>>
    /\ UNCHANGED <<idle, halt, boot, clock, callbacks, last_response, response_event,
                   cl_read, cl_calls, cl_results, auth_enabled, clients,
                   mt5_connection, command_queue, response_cache,
                   clients_lock, queue_lock, cache_lock, hpc, hcur, hmsg, cpc,
                   citem, cmsg, peer_closed, sock_closed, outbox, nsent,
                   inflight, enq_log, upwrites, nolink_pops,
                   pop_log>>

\* lines 222-237: response_event.wait(timeout) returns because the event is
\* set, or the timeout passes with the event not set
ClWait ==
    /\ cl_pc = "wait"
    /\ \/ /\ response_event
          /\ cl_results' = Append(cl_results,
                                  IF last_response # NoReply
                                  THEN last_response ELSE EmptyResponse)
          /\ UNCHANGED callbacks
       \/ /\ ~response_event
          /\ callbacks' = callbacks \ {cl_calls}
          /\ cl_results' = Append(cl_results, ResponseTimeout)
    /\ cl_pc' = "ready"
    /\ UNCHANGED <<cl_token, cl_authenticated, cl_auth, cl_refused>>
    /\ UNCHANGED <<idle, halt, boot, clock, last_response, response_event, cl_read,
                   cl_calls, auth_enabled, clients, mt5_connection,
                   command_queue, response_cache, clients_lock, queue_lock,
                   cache_lock, hpc, hcur, hmsg, cpc, citem, cmsg, inbox,
                   peer_closed, sock_closed, outbox, nsent, inflight, enq_log,
                   upwrites, nolink_pops,
                   pop_log>>

\* lines 249-259 and 278-300 (receive thread): recv returns the next reply,
\* or several replies in one chunk, which json.loads rejects (line 309);
\* a reply whose requestId has a callback is handed to it (lines 315-323:
\* the sync callback stores it and sets the event, and stays registered)
ClReceive ==
    /\ cl_pc # "off"
    /\ \E k \in 1..(Len(outbox[ClientConn]) - cl_read) :
          /\ cl_read' = cl_read + k
          /\ LET response == outbox[ClientConn][cl_read + 1]
             IN IF k = 1 /\ response.rid # NoReq /\ response.rid \in callbacks
                THEN /\ last_response' = response
                     /\ response_event' = TRUE
                ELSE UNCHANGED <<last_response, response_event>>
    /\ UNCHANGED <<cl_token, cl_authenticated, cl_auth, cl_refused>>
    /\ UNCHANGED <<idle, halt, boot, clock, cl_pc, callbacks, cl_calls, cl_results,
                   auth_enabled, clients, mt5_connection, command_queue,
                   response_cache, clients_lock, queue_lock, cache_lock, hpc,
                   hcur, hmsg, cpc, citem, cmsg, inbox, peer_closed,
                   sock_closed, outbox, nsent, inflight, enq_log, upwrites,
                   nolink_pops,
                   pop_log>>

ClientStep ==
    \/ ClAuthSend
    \/ ClAuthWait
    \/ ClClear
    \/ ClReset
    \/ ClSend
    \/ ClWait
    \/ ClReceive

\* ------------------------------------------------------ __init__ (line 58)
\* self.auth_tokens = self._load_auth_tokens(); the default token is written
\* back to the file unless the write raises (lines 100-106)
Construct ==
    /\ ~constructed
    /\ auth_tokens' = LoadAuthTokens(config_file)
    /\ \E saved \in BOOLEAN :
          config_file' = IF saved THEN SavedConfig(config_file)
                         ELSE config_file
    /\ constructed' = TRUE
    /\ UNCHANGED <<idle, halt, clock, client, auth_enabled, clients,
                   mt5_connection,
                   command_queue, response_cache, clients_lock, queue_lock,
                   cache_lock, hpc, hcur, hmsg, cpc, citem, cmsg, inbox,
                   peer_closed, sock_closed, outbox, nsent, inflight, enq_log,
                   upwrites, nolink_pops,
                   pop_log>>

\* ---------------------------------------------------- _clean_expired_cache
\* an expiry test that also drops the entries exactly Horizon seconds old
ExpiredInclusive(t, ts) == t - ts >= Horizon

\* line 543: current_time - value['timestamp'] > 600
Expired(t, ts) == t - ts > Horizon

\* lines 538-547
CleanExpiredCache ==
    /\ cache_lock = Free
    /\ nsweeps < MaxSweeps
    /\ LET expired_keys == {k \in DOMAIN response_cache :
                               Expired(now, response_cache[k].timestamp)}
       IN response_cache' = [k \in (DOMAIN response_cache) \ expired_keys |->
                                response_cache[k]]
    /\ evicted' = evicted \cup {k \in DOMAIN response_cache :
                                   k \notin DOMAIN response_cache'}
    /\ nsweeps' = nsweeps + 1
    /\ UNCHANGED <<idle, halt, boot, client, now, auth_enabled, clients, mt5_connection,
                   command_queue, clients_lock, queue_lock, cache_lock, hpc,
                   hcur, hmsg, cpc, citem, cmsg, inbox, peer_closed,
                   sock_closed, outbox, nsent, inflight, enq_log, upwrites,
                   nolink_pops,
                   pop_log>>

\* a second passes
Tick(n) ==
    /\ now < n
    /\ now' = now + 1
    /\ UNCHANGED <<idle, halt, boot, client, nsweeps, evicted, auth_enabled, clients,
                   mt5_connection, command_queue, response_cache,
                   clients_lock, queue_lock, cache_lock, hpc, hcur, hmsg, cpc,
                   citem, cmsg, inbox, peer_closed, sock_closed, outbox, nsent,
                   inflight, enq_log, upwrites, nolink_pops,
                   pop_log>>

Next ==
    \/ \E c \in Conns : Accept(c, NumConns)
    \/ \E c \in Conns, m \in Msgs : PeerSend(c, m, MaxMsgs)
    \/ \E c \in Conns : PeerClose(c)
    \/ \E c \in Conns : HandlerStep(c)
    \/ ConsumerStep

Spec == Init /\ [][Next]_vars

\* ---------------------------------------------------------------- stop()
\* stop() is run by the thread of the accept loop (line 146, and again from
\* the main program), never by a handler.
\* line 152: self.running = False
StopFlag ==
    /\ spc = "off"
    /\ running' = FALSE
    /\ caught_in_recv' = {c \in Conns : hpc[c] = "recv"}
    /\ spc' = "clients"
    /\ UNCHANGED <<idle, boot, clock, client, auth_enabled, clients,
                   mt5_connection, command_queue, response_cache,
                   clients_lock, queue_lock, cache_lock, hpc, hcur, hmsg, cpc,
                   citem, cmsg, inbox, peer_closed, sock_closed, outbox,
                   nsent, inflight, enq_log, upwrites, nolink_pops, pop_log>>

\* lines 155-161: with clients_lock, every registered socket is closed and
\* the registry is cleared
StopClients ==
    /\ spc = "clients"
    /\ clients_lock = Free
    /\ sock_closed' = sock_closed \cup DOMAIN clients
    /\ clients' = EmptyMap
    /\ spc' = "link"
    /\ UNCHANGED <<idle, running, caught_in_recv, boot, clock, client, auth_enabled,
                   mt5_connection, command_queue, response_cache,
                   clients_lock, queue_lock, cache_lock, hpc, hcur, hmsg, cpc,
                   citem, cmsg, inbox, peer_closed, outbox,
                   nsent, inflight, enq_log, upwrites, nolink_pops, pop_log>>

\* lines 163-169: the upstream socket, if there is one, is closed and
\* self.mt5_connection is set to None (no lock is taken); lines 171-179
\* close the listening socket and return
StopLink ==
    /\ spc = "link"
    /\ sock_closed' = IF mt5_connection = NoConn
                      THEN sock_closed
                      ELSE sock_closed \cup {mt5_connection}
    /\ mt5_connection' = NoConn
    /\ spc' = "done"
    /\ UNCHANGED <<idle, running, caught_in_recv, boot, clock, client, auth_enabled, clients,
                   command_queue, response_cache,
                   clients_lock, queue_lock, cache_lock, hpc, hcur, hmsg, cpc,
                   citem, cmsg, inbox, peer_closed, outbox,
                   nsent, inflight, enq_log, upwrites, nolink_pops, pop_log>>

StopStep ==
    \/ StopFlag
    \/ StopClients
    \/ StopLink

\* the server of Spec with a stop() that may begin at any moment
StopNext ==
    \/ \E c \in Conns : Accept(c, StopConns)
    \/ \E c \in Conns, m \in Msgs : PeerSend(c, m, StopMsgs)
    \/ \E c \in Conns : PeerClose(c)
    \/ \E c \in Conns : HandlerStep(c)
    \/ ConsumerStep
    \/ StopStep

StopSpec == Init /\ [][StopNext]_vars

\* d seconds pass (the clock stops at n)
Elapse(d, n) ==
    /\ now + d <= n
    /\ now' = now + d
    /\ UNCHANGED <<idle, halt, boot, client, nsweeps, evicted, auth_enabled,
                   clients, mt5_connection, command_queue, response_cache,
                   clients_lock, queue_lock, cache_lock, hpc, hcur, hmsg, cpc,
                   citem, cmsg, inbox, peer_closed, sock_closed, outbox,
                   nsent, inflight, enq_log, upwrites, nolink_pops, pop_log>>

\* what the peers of IdleSpec send
IdleKinds == {IdentityMsg, AuthMsg("toka")} \cup {CmdMsg(r) : r \in ReqIds}

\* the accept loop and the handlers with time passing and their read timeouts;
\* the consumer thread, which has no part in the read loop, is not scheduled
IdleNext ==
    \/ \E c \in Conns : Accept(c, IdleConns)
    \/ \E c \in Conns, m \in IdleKinds : PeerSend(c, m, IdleMsgs)
    \/ \E c \in Conns : PeerClose(c)
    \/ \E c \in Conns : HandlerStep(c)
    \/ \E c \in Conns : HTimeout(c)
    \/ Elapse(Quantum, Quantum * MaxIdleTicks)

IdleSpec == Init /\ [][IdleNext]_vars

\* the same server with peers that present tokens
HandshakeNext ==
    \/ \E c \in Conns : Accept(c, HandshakeConns)
    \/ \E c \in Conns, m \in HandshakeKinds : PeerSend(c, m, HandshakeMsgs)
    \/ \E c \in Conns : PeerClose(c)
    \/ \E c \in Conns : HandlerStep(c)
    \/ ConsumerStep

HandshakeSpec == Init /\ [][HandshakeNext]_vars

\* the same server with more connections and more traffic
FairNext ==
    \/ \E c \in Conns : Accept(c, FairConns)
    \/ \E c \in Conns, m \in Msgs : PeerSend(c, m, FairMsgs)
    \/ \E c \in Conns : PeerClose(c)
    \/ \E c \in Conns : HandlerStep(c)
    \/ ConsumerStep

\* The threads are scheduled by the operating system: a thread that can take
\* a step eventually takes one.  The peers are not obliged to do anything.
FairSpec ==
    /\ Init /\ [][FairNext]_vars
    /\ \A c \in Conns : WF_vars(HandlerStep(c))
    /\ WF_vars(ConsumerStep)

\* ---------------------------------------------------------------------
\* _load_auth_tokens on every configuration file: the constructor runs once
LoadInit ==
    /\ auth_enabled \in BOOLEAN
    /\ Idle
    /\ response_cache = EmptyMap
    /\ config_file \in Configs
    /\ auth_tokens = EmptyMap
    /\ constructed = FALSE
    /\ now = 0
    /\ nsweeps = 0
    /\ evicted = {}
    /\ NoClient

LoadSpec == LoadInit /\ [][Construct]_vars

\* ---------------------------------------------------------------------
\* _clean_expired_cache on every cache: entries that arrived during the
\* first NumStamps seconds, looked at from Horizon seconds after the start on
Stamps == 0..(NumStamps - 1)

Caches ==
    UNION {[D -> [data : {NoMsg}, timestamp : Stamps]] :
             D \in SUBSET (1..SweepKeys)}

SweepInit ==
    /\ auth_enabled = FALSE
    /\ Idle
    /\ response_cache \in Caches
    /\ config_file = StdConfig
    /\ auth_tokens = LoadAuthTokens(StdConfig)
    /\ constructed = TRUE
    /\ now = Horizon
    /\ nsweeps = 0
    /\ evicted = {}
    /\ NoClient

SweepNext == Tick(Horizon + MaxTicks) \/ CleanExpiredCache

SweepSpec == SweepInit /\ [][SweepNext]_vars

\* ---------------------------------------------------------------------
\* the tokens an MCPClient is constructed with: none, or the valid one
ClientTokens == {NoTok, "toka"}

\* the server with an MCPClient as the peer of connection ClientConn and
\* arbitrary peers on the other connections; connect() has started the
\* receive thread
ClientInit ==
    /\ auth_enabled \in BOOLEAN
    /\ Idle
    /\ response_cache = EmptyMap
    /\ config_file = StdConfig
    /\ auth_tokens = LoadAuthTokens(StdConfig)
    /\ constructed = TRUE
    /\ now = 0
    /\ nsweeps = 0
    /\ evicted = {}
    /\ cl_token \in ClientTokens
    /\ cl_pc = IF cl_token = NoTok THEN "ready" ELSE "auth"
    /\ callbacks = {}
    /\ last_response = NoReply
    /\ response_event = FALSE
    /\ cl_read = 0
    /\ cl_calls = 0
    /\ cl_results = <<>>
    /\ cl_authenticated = FALSE
    /\ cl_auth = NotCalled
    /\ cl_refused = FALSE

ClientNext ==
    \/ \E c \in Conns : Accept(c, FairConns)
    \/ \E c \in Conns \ {ClientConn}, m \in Msgs : PeerSend(c, m, ClientMsgs)
    \/ \E c \in Conns \ {ClientConn} : PeerClose(c)
    \/ \E c \in Conns : HandlerStep(c)
    \/ ConsumerStep
    \/ ClientStep

ClientSpec == ClientInit /\ [][ClientNext]_vars

TypeOK ==
    /\ DOMAIN clients \subseteq Conns
    /\ mt5_connection \in Conns \cup {NoConn}
    /\ clients_lock \in Conns \cup {Free, Consumer}
    /\ cpc \in {"idle", "forward", "wait", "send"}

\* ------------------------------------------------------------- vocabulary
Range(q) == {q[i] : i \in DOMAIN q}

\* the peer left, or the handler of the connection has ended
Gone(c) == peer_closed[c] \/ hpc[c] \in {"fin", "done"}

\* a reply that ends a command: it names the request and is not the ack
IsTerminal(m) == m.rid # NoReq /\ m.status \in {"error", "payload"}

Enqueued(c, r) ==
    Cardinality({i \in DOMAIN enq_log : /\ enq_log[i].client_id = c
                                        /\ enq_log[i].request_id = r})

Terminals(c, r) ==
    Cardinality({i \in DOMAIN outbox[c] : /\ IsTerminal(outbox[c][i])
                                          /\ outbox[c][i].rid = r})

Written(it) == \E i \in DOMAIN upwrites : upwrites[i].item = it

\* ------------------------------------------------------------------ C6
\* C6: at most one command is in flight at any time: whenever the consumer
\* is handling a command it is the only command popped and not yet finished,
\* and when the consumer is ready to pop there is none.
C6_OneInFlight ==
    /\ Cardinality(inflight) <= 1
    /\ cpc = "idle" => inflight = {}
    /\ cpc # "idle" => inflight = {citem}

\* the consumer is handling the second command, popped after the first one
\* was rejected and answered
C6_Witness ==
    /\ cpc # "idle"
    /\ citem.seq = 2
    /\ inflight = {citem}
    /\ NotConnectedReply(enq_log[1].request_id)
          \in Range(outbox[enq_log[1].client_id])

\* ------------------------------------------------------------------ C8
\* C8: with authentication enabled, when a registered, not yet authenticated
\* connection has had its auth message decided, it is authenticated and
\* about to be answered 'authenticated' exactly if the token is in
\* auth_tokens; otherwise its flag is still false and the answer is
\* 'Authentication failed'.  Only such a decision puts 'authenticated' on
\* the wire.
C8_AuthIffTokenValid ==
    \A c \in Conns :
        /\ ( /\ auth_enabled
             /\ c \in DOMAIN clients
             /\ hpc[c] = "send"
             /\ hmsg[c] \in {AuthenticatedReply, AuthFailedReply} )
           => /\ hcur[c].auth # NoTok
              /\ (hmsg[c] = AuthenticatedReply) <=> (hcur[c].auth \in DOMAIN auth_tokens)
              /\ clients[c].authenticated <=> (hcur[c].auth \in DOMAIN auth_tokens)
        /\ ( /\ auth_enabled
             /\ c \in DOMAIN clients
             /\ AuthenticatedReply \in Range(outbox[c]) )
           => clients[c].authenticated

\* one connection was refused for a token outside the store and then
\* authenticated with a token of the store
C8_Witness ==
    /\ auth_enabled
    /\ \E c \in DOMAIN clients :
          /\ clients[c].authenticated
          /\ outbox[c] = <<AuthFailedReply, AuthenticatedReply>>

\* ------------------------------------------------------------------ C9
\* C9: with authentication enabled, a connection that is not authenticated
\* never gets past the check of line 303: it is never at the command
\* processing steps, nothing it sent is in the queue history, and every
\* entry ever appended came from a connection authenticated at that moment.
C9_QueueOnlyAuthenticated ==
    /\ \A i \in DOMAIN enq_log : enq_log[i].authed
    /\ \A c \in DOMAIN clients :
          (auth_enabled /\ ~clients[c].authenticated)
          => /\ hpc[c] \notin {"get_type", "enqueue", "cache_put"}
             /\ \A i \in DOMAIN enq_log : enq_log[i].client_id # c
             /\ \A m \in Range(outbox[c]) : m.status # "queued"

\* an unauthenticated connection sent a command, was answered
\* 'Not authenticated' and left no queue entry
C9_Witness ==
    /\ auth_enabled
    /\ \E c \in DOMAIN clients :
          /\ ~clients[c].authenticated
          /\ NotAuthenticatedReply \in Range(outbox[c])
          /\ \A i \in DOMAIN enq_log : enq_log[i].client_id # c

Payloads(c, r) ==
    Cardinality({i \in DOMAIN outbox[c] : /\ outbox[c][i].status = "payload"
                                          /\ outbox[c][i].rid = r})

\* the consumer is handling a command of connection c with requestId r
Handling(c, r) == citem.client_id = c /\ citem.request_id = r

\* a command of c with requestId r still lacks its terminal reply
Unanswered(c, r) == ~Gone(c) /\ Terminals(c, r) < Enqueued(c, r)

\* ------------------------------------------------------------------ C1
\* C1: every command enqueued for a client that stays connected is
\* eventually answered by a terminal reply, and a client never gets more
\* terminal replies for a requestId than commands it submitted with it.
C1_EveryCommandAnswered ==
    /\ [](\A c \in Conns : \A r \in ReqIds : Terminals(c, r) <= Enqueued(c, r))
    /\ \A c \in Conns : \A r \in ReqIds :
          Unanswered(c, r) ~> ~Unanswered(c, r)

\* ------------------------------------------------------------------ C2
\* C2: if the linked upstream connection sends a reply for requestId r while
\* the consumer is still waiting for it (the deadline has not passed), the
\* originating client eventually receives that reply object, provided it
\* stays connected.
C2_ReplyForwarded ==
    \A c \in Conns : \A r \in ReqIds :
        ( /\ cpc = "wait"
          /\ Handling(c, r)
          /\ mt5_connection # NoConn
          /\ RespMsg(r) \in Range(inbox[mt5_connection])
          /\ ~Gone(c) )
        ~> (PayloadReply(RespMsg(r)) \in Range(outbox[c]) \/ Gone(c))

\* ------------------------------------------------------------------ C3
\* C3: when the deadline of a forwarded command passes without its reply,
\* the originating client (if it stays connected) eventually receives the
\* timeout error; and once it has the timeout error for r, no upstream
\* payload for r is delivered to it.
C3_TimeoutAnswered ==
    /\ \A c \in Conns : \A r \in ReqIds :
          ( /\ cpc = "send"
            /\ cmsg = TimeoutReply(r)
            /\ Handling(c, r)
            /\ ~Gone(c) )
          ~> (TimeoutReply(r) \in Range(outbox[c]) \/ Gone(c))
    /\ [][\A c \in Conns : \A r \in ReqIds :
             TimeoutReply(r) \in Range(outbox[c])
             => Payloads(c, r)' = Payloads(c, r)]_vars

\* ------------------------------------------------------------------ C5
\* C5: when a registered connection declares the upstream identity while
\* another connection is the link, it eventually becomes the upstream
\* (its type is set and it is installed as the link).
C5_SecondIdentitySupersedes ==
    \A b \in Conns :
        ( /\ b \in DOMAIN clients
          /\ hpc[b] = "recv"
          /\ inbox[b] # <<>>
          /\ Head(inbox[b]) = IdentityMsg
          /\ mt5_connection \notin {NoConn, b} )
        ~> (b \in DOMAIN clients /\ clients[b].type = "mt5_ea")

\* ------------------------------------------------------------------ C10
\* C10: a registered connection whose identity message is being processed
\* eventually has type mt5_ea, is the link or was superseded, has been sent
\* the 'connected' acknowledgment (unless its peer left), and its handler is
\* back at reading.
C10_IdentityAcknowledged ==
    \A c \in Conns :
        (hpc[c] = "identity" /\ c \in DOMAIN clients)
        ~> ( /\ hpc[c] = "recv"
             /\ c \in DOMAIN clients
             /\ clients[c].type = "mt5_ea"
             /\ (ConnectedReply \in Range(outbox[c]) \/ peer_closed[c]) )

\* ------------------------------------------------------------------ C7
\* The handler that installs the link never releases clients_lock, so the
\* consumer never returns from the first command it forwards: the case of
\* C7, two commands written to the upstream, is not reachable.
LinkHoldsRegistryLock ==
    mt5_connection # NoConn
    => /\ clients_lock = mt5_connection
       /\ hpc[mt5_connection] = "send"
       /\ hmsg[mt5_connection] = ConnectedReply

AtMostOneForward == Len(upwrites) <= 1

\* a handler waiting in _send_to_client for the lock it holds itself
SelfBlocked(c) == hpc[c] = "send" /\ clients_lock = c

\* once self-blocked, a handler stays so whatever the other threads and the
\* peers do
SelfBlockedForever == [][\A c \in Conns : SelfBlocked(c) => SelfBlocked(c)']_vars

\* ------------------------------------------------------------------ C11
\* the replies with status s that name request r among the first n replies
\* written to connection c
CountUpTo(c, r, n, s) ==
    Cardinality({i \in 1..n : /\ outbox[c][i].rid = r
                              /\ outbox[c][i].status \in s})

\* C11: on a connection whose peer has not left (every write to it
\* succeeded), each terminal reply for requestId r comes after the 'queued'
\* acknowledgment of its command: in every prefix of what was written there
\* are at least as many 'queued' replies for r as terminal replies for r.
C11_QueuedBeforeTerminal ==
    \A c \in Conns : \A r \in ReqIds :
        ~peer_closed[c]
        => \A n \in 1..Len(outbox[c]) :
              CountUpTo(c, r, n, {"error", "payload"})
                 <= CountUpTo(c, r, n, {"queued"})

\* ------------------------------------------------------------------ C12
\* C12: when the connection that is the upstream link disconnects (its peer
\* leaves, or its handler ends), the link eventually becomes empty or moves
\* to another connection.
C12_LinkClearedOnDisconnect ==
    \A c \in Conns :
        (mt5_connection = c /\ Gone(c)) ~> (mt5_connection # c)

\* ------------------------------------------------------------------ C13
\* C13: if the upstream's peer leaves while the consumer waits for the reply
\* to a command it wrote, and no reply for that command had arrived, then
\* the client (if it stays connected) eventually receives the timeout error
\* for that requestId.
C13_InFlightTimesOut ==
    \A c \in Conns : \A r \in ReqIds :
        ( /\ cpc = "wait"
          /\ Handling(c, r)
          /\ mt5_connection # NoConn
          /\ peer_closed[mt5_connection]
          /\ RespMsg(r) \notin Range(inbox[mt5_connection])
          /\ r \notin DOMAIN response_cache
          /\ ~Gone(c) )
        ~> (TimeoutReply(r) \in Range(outbox[c]) \/ Gone(c))

\* ------------------------------------------------------------------ C14
\* C14: the eviction sweep is invoked on a recurring cycle: at every moment
\* of every run, another call of _clean_expired_cache is still to come.
C14_SweepRecurs == []<><<nsweeps' # nsweeps>>_vars

\* ------------------------------------------------------------------ C15
\* C15: one call of _clean_expired_cache removes exactly the entries whose
\* age, now minus arrival timestamp, exceeds 600 s, and leaves every other
\* entry as it was.
C15_SweepRemovesExactlyExpired ==
    [][nsweeps' # nsweeps
       => /\ DOMAIN response_cache' =
                {k \in DOMAIN response_cache :
                    now - response_cache[k].timestamp <= 600}
          /\ \A k \in DOMAIN response_cache' :
                response_cache'[k] = response_cache[k]]_vars

\* a sweep has run that found entries 601 s and 600 s old: only the entry
\* that was 600 s old is left
C15_Witness ==
    /\ nsweeps = 1
    /\ evicted = {1}
    /\ now = Horizon + 1
    /\ DOMAIN response_cache = {2}
    /\ response_cache[2].timestamp = 1

\* ------------------------------------------------------------------ C18
\* C18: after construction from a configuration file that is missing or
\* that parses, whatever it holds, the token table is not empty.
C18_StoreNeverEmpty ==
    (constructed /\ (config_file.exists => config_file.parses))
    => DOMAIN auth_tokens # {}

\* ------------------------------------------------------------------ C16
\* The only place where the code takes a second lock while holding one is
\* _execute_command delivering a cached reply (cache_lock, then clients_lock
\* inside _send_to_client).  It needs an entry in response_cache, and an
\* entry is stored only for a connection of type mt5_ea, whose handler never
\* returns from the identity message: the cache stays empty and cache_lock is
\* never held when a thread goes for clients_lock.
CacheNeverFilled == response_cache = EmptyMap /\ cache_lock = Free

\* ------------------------------------------------------------------ C17
\* bytes that are not UTF-8, or text that is not JSON
Undecodable(m) == m.garbled \/ m.bad

\* C17: the step in which a handler takes an undecodable message off its
\* socket leaves the handler about to send the 'Invalid JSON format' error
\* with the registry, the queue, the cache, the link, every socket and
\* everything written so far unchanged; and the step that sends that error
\* writes to no other connection, changes none of those structures and takes
\* the handler back to reading.
C17_DecodeErrorIsLocal ==
    [][\A c \in Conns :
          /\ ( /\ hpc[c] = "recv"
               /\ inbox[c] # <<>>
               /\ Undecodable(Head(inbox[c]))
               /\ inbox'[c] = Tail(inbox[c]) )
             => /\ hpc'[c] = "send"
                /\ hmsg'[c] = InvalidJsonReply
                /\ c \in DOMAIN clients'
                /\ <<clients, command_queue, response_cache, mt5_connection,
                     sock_closed, outbox>>'
                   = <<clients, command_queue, response_cache, mt5_connection,
                       sock_closed, outbox>>
          /\ ( /\ hpc[c] = "send"
               /\ hmsg[c] = InvalidJsonReply
               /\ hpc'[c] # "send" )
             => /\ hpc'[c] = "recv"
                /\ \A d \in Conns \ {c} : outbox'[d] = outbox[d]
                /\ <<clients, command_queue, response_cache, mt5_connection,
                     sock_closed>>'
                   = <<clients, command_queue, response_cache, mt5_connection,
                       sock_closed>>]_vars

\* ------------------------------------------------------------------ C19
\* C19: the registry never holds more than max_clients connections.
C19_RegistryWithinMaxClients == Cardinality(DOMAIN clients) <= max_clients

\* ------------------------------------------------------------------ C20
\* C20: what the i-th synchronous send_command returns is a terminal reply
\* (the upstream payload or an error naming the request) for the requestId
\* it sent, or the client's own timeout error; never the 'queued'
\* acknowledgment.
C20_SyncReturnsTerminal ==
    \A i \in DOMAIN cl_results :
        \/ cl_results[i] = ResponseTimeout
        \/ IsTerminal(cl_results[i]) /\ cl_results[i].rid = i

\* ------------------------------------------------------------------ C21
\* C21: when authenticate() has returned and the client's receive thread
\* had taken the server's 'authenticated' reply before it returned, it
\* returned True and the client's authenticated flag is set.
C21_AuthenticateSucceeds ==
    (cl_auth.done /\ cl_auth.seen) => (cl_auth.ok /\ cl_authenticated)

\* ------------------------------------------------------------------ C22
\* C22: a command the consumer popped while the upstream link was empty is
\* never written to an upstream, the reply prepared for it is the
\* 'MetaTrader EA not connected' error with its requestId, and that error
\* eventually reaches the originating client, provided it stays connected.
C22_NoLinkAnswered ==
    /\ [](\A it \in nolink_pops :
             /\ ~Written(it)
             /\ citem = it => cmsg = NotConnectedReply(it.request_id))
    /\ \A c \in Conns : \A r \in ReqIds :
          ( /\ cpc = "send"
            /\ citem \in nolink_pops
            /\ Handling(c, r)
            /\ ~Gone(c) )
          ~> (NotConnectedReply(r) \in Range(outbox[c]) \/ Gone(c))

\* ------------------------------------------------------------------ C23
\* C23: no thread waits for a lock it already holds: no handler is in
\* _send_to_client, waiting for clients_lock, while it is itself the holder
\* of clients_lock.
C23_NoThreadWaitsForOwnLock == \A c \in Conns : ~SelfBlocked(c)

\* ------------------------------------------------------------------ C24
\* The case of C24 is a reply stored in response_cache and then delivered.
\* No run stores one (CacheNeverFilled), and no client is ever written an
\* upstream payload.
NoPayloadDelivered ==
    \A c \in Conns : \A i \in DOMAIN outbox[c] : outbox[c][i].status # "payload"

\* ------------------------------------------------------------------ C25
\* The case of C25 is a connection superseded as the upstream link.  The
\* handler that installs the link keeps clients_lock for ever, so a second
\* identity declaration is never processed: the link, once set, never
\* changes, and at most one connection ever has type mt5_ea.
LinkNeverSuperseded ==
    /\ [][mt5_connection # NoConn => mt5_connection' = mt5_connection]_vars
    /\ [](\A c \in DOMAIN clients :
             clients[c].type = "mt5_ea" => mt5_connection = c)

\* ------------------------------------------------------------------ C26
\* C26: if the originating client is gone while the consumer waits for the
\* reply to its command, the consumer eventually finishes the command,
\* whether the reply arrives or not (no reply for it is left in the cache),
\* and is ready for the next queued command.
C26_DispatchSurvivesClientLoss ==
    \A c \in Conns : \A r \in ReqIds :
        ( /\ cpc = "wait"
          /\ Handling(c, r)
          /\ Gone(c) )
        ~> (cpc = "idle" /\ r \notin DOMAIN response_cache)

\* ------------------------------------------------------------------ C27
\* C27: when the write of a command envelope to the upstream connection has
\* failed (the consumer is about to report 'Error executing command'), that
\* connection is eventually torn down and removed from the registry.
C27_WriteFailureTearsDown ==
    \A u \in Conns :
        ( /\ mt5_connection = u
          /\ cpc = "send"
          /\ citem # NoItem
          /\ cmsg = ExecErrorReply(citem.request_id) )
        ~> (u \notin DOMAIN clients)

\* ------------------------------------------------------------------ C28
\* C28: the commands popped so far followed by the commands still queued are
\* exactly the commands enqueued so far, in order and each once: a command is
\* popped once and never put back; and no command has been written to an
\* upstream more than once, nor before it was popped.
C28_ConsumedExactlyOnce ==
    /\ pop_log \o command_queue = enq_log
    /\ \A i \in DOMAIN enq_log : enq_log[i].seq = i
    /\ \A i, j \in DOMAIN upwrites :
          upwrites[i].item = upwrites[j].item => i = j
    /\ \A i \in DOMAIN upwrites : upwrites[i].item \in Range(pop_log)

\* a command was enqueued, popped and written to the upstream; the consumer
\* waits for its reply and the queue no longer holds it
C28_Witness ==
    /\ Len(enq_log) = 1
    /\ pop_log = enq_log
    /\ command_queue = <<>>
    /\ cpc = "wait"
    /\ citem = pop_log[1]
    /\ Len(upwrites) = 1
    /\ Written(pop_log[1])

\* ------------------------------------------------------------------ C29
\* C29: a message with a token on a connection that is not authenticated is
\* handled as a handshake and nothing else: the test of line 284 sends it to
\* _authenticate_client, whose outcome is the reply 'authenticated' or
\* 'Authentication failed' and no queue entry; and once that reply has been
\* handed to _send_to_client the handler is back at reading, with at most
\* that one reply written and the queue as it was, even when the message
\* carries a command.
C29_HandshakeOnly ==
    [][\A c \in Conns :
          /\ ( /\ hpc[c] = "auth_check"
               /\ ~IsClientAuthenticated(c)
               /\ hpc'[c] # "auth_check" )
             => hpc'[c] = "authenticate"
          /\ ( /\ hpc[c] = "authenticate"
               /\ hpc'[c] # "authenticate" )
             => /\ hpc'[c] = "send"
                /\ hmsg'[c] \in HandshakeReplies
                /\ enq_log' = enq_log
                /\ command_queue' = command_queue
                /\ outbox' = outbox
          /\ ( /\ hpc[c] = "send"
               /\ hmsg[c] \in HandshakeReplies
               /\ hpc'[c] # "send" )
             => /\ hpc'[c] = "recv"
                /\ hcur'[c] = NoMsg
                /\ enq_log' = enq_log
                /\ command_queue' = command_queue
                /\ outbox'[c] \in {outbox[c], Append(outbox[c], hmsg[c])}]_vars

\* a connection that was not authenticated sent a valid token together with
\* a command: it is authenticated, about to be answered 'authenticated', and
\* nothing was enqueued
C29_Witness ==
    /\ auth_enabled
    /\ enq_log = <<>>
    /\ \E c \in DOMAIN clients :
          /\ hpc[c] = "send"
          /\ hmsg[c] = AuthenticatedReply
          /\ hcur[c].auth # NoTok
          /\ hcur[c].command
          /\ clients[c].authenticated
          /\ outbox[c] = <<>>

UpstreamReadsNothing ==
    \A c \in DOMAIN clients :
        clients[c].type = "mt5_ea"
        => /\ SelfBlocked(c)
           /\ hmsg[c] = ConnectedReply
           /\ hcur[c] = IdentityMsg

\* ------------------------------------------------------------------ C36
\* C36: what the i-th synchronous send_command returns is one of the
\* client's own errors (timeout, empty response) or a response that names
\* the requestId the i-th call sent; never a response to an earlier request.
C36_ResultNamesOwnRequest ==
    \A i \in DOMAIN cl_results :
        \/ cl_results[i] \in {ResponseTimeout, EmptyResponse}
        \/ cl_results[i].rid = i

\* ------------------------------------------------------------------ C33
\* C33: a read timeout of a handler (its recv ends with no data taken and
\* with the peer still there) drops the connection exactly when more than
\* IdleLimit seconds have passed since the connection's last received data
\* (its registration, if it has sent none); otherwise the handler is back
\* in recv and the registry and every socket are as they were.
C33_TimeoutAloneNeverDrops ==
    [][\A c \in Conns :
          ( /\ hpc[c] = "recv"
            /\ last_wake'[c] # last_wake[c]
            /\ inbox'[c] = inbox[c] )
          => IF c \in DOMAIN clients /\ now - last_activity[c] > IdleLimit
             THEN hpc'[c] = "fin"
             ELSE /\ hpc'[c] = "recv"
                  /\ clients' = clients
                  /\ sock_closed' = sock_closed]_vars

\* a connection whose last activity was at 60 s had a read timeout at 180 s,
\* exactly IdleLimit seconds idle, and is still registered and reading
C33_Witness ==
    \E c \in DOMAIN clients :
        /\ last_activity[c] = 60
        /\ last_wake[c] = 180
        /\ now = 180
        /\ hpc[c] = "recv"
        /\ c \notin sock_closed

\* ------------------------------------------------------------------ C34
\* C34: a connection whose handler has terminated (after a peer close, an
\* inactivity timeout or a read error) has its socket closed and has no
\* entry in the registry.
C34_TerminatedIsUnregistered ==
    \A c \in Conns :
        hpc[c] = "done" => c \in sock_closed /\ c \notin DOMAIN clients

\* a handler has terminated after an inactivity timeout: its peer never
\* closed, and its last read timed out more than IdleLimit seconds after the
\* last activity
C34_Witness ==
    \E c \in Conns :
        /\ hpc[c] = "done"
        /\ ~peer_closed[c]
        /\ last_wake[c] - last_activity[c] > IdleLimit
        /\ c \in sock_closed
        /\ c \notin DOMAIN clients

\* ------------------------------------------------------------------ C35
\* C35: once stop() has returned, the registry is empty, every connection
\* that was registered has its socket closed, and there is no upstream link;
\* this stays so (no connection registers and no link is installed later).
C35_StoppedStaysEmpty ==
    spc = "done" => clients = EmptyMap /\ mt5_connection = NoConn

====
